---- MODULE Spec2Model ----
(***************************************************************************)
(* A model of cycamore's BatchReactor facility                             *)
(* (src/Models/BatchReactor/batch_reactor.cc): its phase state machine,    *)
(* its three resource buffers and spillover material, and the request /    *)
(* bid / trade handlers the resource exchange calls once per time step.    *)
(*                                                                         *)
(* Quantities (C++ doubles) are modelled as naturals; a material is its    *)
(* quantity, a buffer is the FIFO sequence of the quantities it holds.     *)
(***************************************************************************)
EXTENDS Integers, Sequences, FiniteSets

\* ------------------------------------------------------------- bounds
MaxTime == 3          \* last simulated time step
MaxProcessTime == 2   \* processtime is drawn from 0..MaxProcessTime
MaxRefuelTime == 2    \* refueltime  is drawn from 0..MaxRefuelTime
MaxPreorderTime == 1  \* orderlookahead is drawn from 0..MaxPreorderTime
MaxBatches == 2       \* nbatches, nreload, norder, ncore are drawn from 0..MaxBatches
MaxInitCond == 1      \* nreserves, nstorage are drawn from 0..MaxInitCond
MaxBatchSize == 2     \* batchsize is drawn from 0..MaxBatchSize
MaxAmt == 2           \* largest quantity of one request, trade or delivery
MaxTrades == 2        \* most requests, trades or deliveries in one exchange
MaxHeld == 4          \* deliveries stop once reserves and spillover hold this much
MaxOptional == 2      \* most optional schema elements one input file gives

\* An optional schema element that the input file leaves out.
Absent == -1

VARIABLES
  \* members of BatchReactor
  process_time, preorder_time, refuel_time, start_time,
  n_batches, n_load, n_reserves, batch_size,
  phase, ics, reserves, core, storage, spillover,
  \* the simulation around it: context()->time(), the scheduler's position
  \* within the time step, and how the last call ended
  time, pc, status,
  \* the nreload and norder elements of the input file InitModuleMembers read
  qe,
  \* the messages of the current time step's resource exchange
  requests, ports, trades, responses, delivered

params == <<process_time, preorder_time, refuel_time, n_batches, n_load,
            n_reserves, batch_size, ics>>
buffers == <<reserves, core, storage, spillover>>
exchange == <<requests, ports, trades, responses, delivered>>
vars == <<qe, params, start_time, phase, buffers, time, pc, status, exchange>>

\* ------------------------------------------------------ resource buffers
RECURSIVE Sum(_)
Sum(s) == IF s = <<>> THEN 0 ELSE Head(s) + Sum(Tail(s))

\* ResourceBuff::quantity() and ResourceBuff::count()
Quantity(buf) == Sum(buf)
Count(buf) == Len(buf)

Min(a, b) == IF a < b THEN a ELSE b

\* n identical materials of quantity q, as Material::Create makes them
Batches(n, q) == [i \in 1..n |-> q]

\* ResourceBuff::Push: to the back
Push(buf, mat) == Append(buf, mat)

\* ResourceBuff::Pop: the front resource; throws on an empty buffer
Pop(buf) ==
  IF buf = <<>>
  THEN [err |-> TRUE, mat |-> 0, rest |-> buf]
  ELSE [err |-> FALSE, mat |-> Head(buf), rest |-> Tail(buf)]

\* ResourceBuff::PopQty: resources from the front until qty is met, the last
\* one split and its remainder put back at the front; throws, removing
\* nothing, when qty exceeds the buffer's quantity
RECURSIVE PopQtyLoop(_, _, _)
PopQtyLoop(mats, left, manifest) ==
  IF left <= 0
  THEN [rest |-> mats, manifest |-> manifest]
  ELSE LET quan == Head(mats)
       IN  IF quan - left > 0
           THEN [rest |-> <<quan - left>> \o Tail(mats),
                 manifest |-> Append(manifest, left)]
           ELSE PopQtyLoop(Tail(mats), left - quan, Append(manifest, quan))

PopQty(buf, qty) ==
  IF qty > Quantity(buf)
  THEN [err |-> TRUE, manifest |-> <<>>, rest |-> buf]
  ELSE LET r == PopQtyLoop(buf, qty, <<>>)
       IN  [err |-> FALSE, manifest |-> r.manifest, rest |-> r.rest]

\* ------------------------------------------------- inline accessors
n_core == Count(core)
end_time == start_time + process_time
order_time == end_time - preorder_time

\* Fault variant of phase(Phase p): the end of a cycle starts over in INITIAL
set_phase_Restart(p) ==
  /\ start_time' = IF p = "PROCESS" THEN time ELSE start_time
  /\ phase' = IF p = "WAITING" THEN "INITIAL" ELSE p

\* BatchReactor::phase(Phase p): entering PROCESS records the start time
set_phase(p) ==
  /\ start_time' = IF p = "PROCESS" THEN time ELSE start_time
  /\ phase' = p

\* ------------------------------------------------------ construction
\* BatchReactor::BatchReactor
Init ==
  /\ process_time = 1
  /\ preorder_time = 0
  /\ refuel_time = 0
  /\ start_time = -1
  /\ n_batches = 1
  /\ n_load = 1
  /\ n_reserves = 1
  /\ batch_size = 1
  /\ phase = "INITIAL"
  /\ ics = [n_reserves |-> 0, n_core |-> 0, n_storage |-> 0]
  /\ reserves = <<>>
  /\ core = <<>>
  /\ storage = <<>>
  /\ spillover = 0
  /\ time = 0
  /\ pc = "init"
  /\ status = "ok"
  /\ qe = [nreload |-> Absent, norder |-> Absent]
  /\ requests = {}
  /\ ports = {}
  /\ trades = <<>>
  /\ responses = <<>>
  /\ delivered = <<>>

\* cyclus::GetOptionalQuery: the element's value, or the default without it
GetOptionalQuery(q, default) == IF q = Absent THEN default ELSE q

Optional(S) == S \cup {Absent}

\* how many of these optional elements the input file gives
NPresent(qs) == Cardinality({i \in DOMAIN qs : qs[i] # Absent})

\* The values InitModuleMembers computes for n_load and n_reserves
NLoadFrom(nreload, cur_n_load) == GetOptionalQuery(nreload, cur_n_load)
NReservesFrom(norder, new_n_load) == GetOptionalQuery(norder, new_n_load)

\* BatchReactor::InitModuleMembers
InitModuleMembers ==
  /\ pc = "init"
  /\ \E pt \in 0..MaxProcessTime, nb \in 0..MaxBatches, bs \in 0..MaxBatchSize,
        rt \in Optional(0..MaxRefuelTime), la \in Optional(0..MaxPreorderTime),
        nreload \in Optional(0..MaxBatches), norder \in Optional(0..MaxBatches),
        nres \in Optional(0..MaxInitCond), nc \in Optional(0..MaxBatches),
        nsto \in Optional(0..MaxInitCond) :
        /\ NPresent(<<rt, la, nreload, norder, nres, nc, nsto>>) <= MaxOptional
        /\ process_time' = pt
        /\ n_batches' = nb
        /\ batch_size' = bs
        /\ refuel_time' = GetOptionalQuery(rt, refuel_time)
        /\ preorder_time' = GetOptionalQuery(la, preorder_time)
        /\ qe' = [nreload |-> nreload, norder |-> norder]
        /\ n_load' = NLoadFrom(nreload, n_load)
        /\ n_reserves' = NReservesFrom(norder, NLoadFrom(nreload, n_load))
        /\ ics' = [n_reserves |-> GetOptionalQuery(nres, 0),
                   n_core |-> GetOptionalQuery(nc, 0),
                   n_storage |-> GetOptionalQuery(nsto, 0)]
  /\ pc' = "deploy"
  /\ UNCHANGED <<start_time, phase, buffers, time, status, exchange>>

\* Fault variant of Deploy's core loop: one batch short
CoreAtDeploy_OneShort(c) ==
  c \o Batches(IF ics.n_core > 0 THEN ics.n_core - 1 ELSE 0, batch_size)

\* BatchReactor::Deploy
CoreAtDeploy(c) == c \o Batches(ics.n_core, batch_size)

Deploy ==
  /\ pc = "deploy"
  /\ set_phase("INITIAL")
  /\ spillover' = 0
  /\ reserves' = reserves \o Batches(ics.n_reserves, batch_size)
  /\ core' = CoreAtDeploy(core)
  /\ storage' = storage \o Batches(ics.n_storage, batch_size)
  /\ pc' = "tick"
  /\ UNCHANGED <<qe, params, time, status, exchange>>

\* --------------------------------------------------------------- tick
\* Fault variant of MoveBatchOut_: the batch is pushed to storage but left in the core
MoveBatchOut_NoPop(c, s) ==
  LET r == Pop(c)
  IN  IF r.err
      THEN [err |-> TRUE, core |-> c, storage |-> s]
      ELSE [err |-> FALSE, core |-> c, storage |-> Push(s, r.mat)]

\* BatchReactor::MoveBatchOut_: one batch from the core, transmuted, to storage;
\* the error of popping an empty core is rethrown
MoveBatchOut_(c, s) ==
  LET r == Pop(c)
  IN  IF r.err
      THEN [err |-> TRUE, core |-> c, storage |-> s]
      ELSE [err |-> FALSE, core |-> r.rest, storage |-> Push(s, r.mat)]

\* for (int i = 0; i < n_load(); i++) MoveBatchOut_();  the first throw ends it
RECURSIVE UnloadLoop(_, _, _)
UnloadLoop(i, c, s) ==
  IF i >= n_load
  THEN [err |-> FALSE, core |-> c, storage |-> s]
  ELSE LET r == MoveBatchOut_(c, s)
       IN  IF r.err THEN r ELSE UnloadLoop(i + 1, r.core, r.storage)

\* Fault variants of the tick conditions: unload at or after the end time;
\* resume without the refuel delay
ProcessDone_AtOrAfter == time >= start_time + process_time
WaitingReady_NoDelay == Count(core) = n_batches /\ start_time + process_time <= time

\* The conditions of HandleTick's three cases
ProcessDone == time = end_time
WaitingReady == n_core = n_batches /\ end_time + refuel_time <= time
InitialReady == n_core = n_batches

\* BatchReactor::HandleTick
HandleTick ==
  /\ pc = "tick"
  /\ status = "ok"
  /\ time <= MaxTime
  /\ CASE phase = "PROCESS" ->
          IF ProcessDone
          THEN LET r == UnloadLoop(0, core, storage)
               IN  /\ core' = r.core
                   /\ storage' = r.storage
                   /\ IF r.err
                      THEN status' = "error" /\ UNCHANGED <<phase, start_time>>
                      ELSE status' = status /\ set_phase("WAITING")
          ELSE UNCHANGED <<phase, start_time, core, storage, status>>
       [] phase = "WAITING" ->
          /\ IF WaitingReady
             THEN set_phase("PROCESS")
             ELSE UNCHANGED <<phase, start_time>>
          /\ UNCHANGED <<core, storage, status>>
       [] phase = "INITIAL" ->
          /\ IF InitialReady
             THEN set_phase("PROCESS")
             ELSE UNCHANGED <<phase, start_time>>
          /\ UNCHANGED <<core, storage, status>>
  /\ pc' = "request"
  /\ UNCHANGED <<qe, params, reserves, spillover, time, exchange>>

\* --------------------------------------------------------------- tock
\* BatchReactor::MoveBatchIn_: one batch from the reserves to the core
MoveBatchIn_(res, c) ==
  LET r == Pop(res)
  IN  IF r.err
      THEN [err |-> TRUE, reserves |-> res, core |-> c]
      ELSE [err |-> FALSE, reserves |-> r.rest, core |-> Push(c, r.mat)]

\* Fault variant of Refuel_'s loop condition: one batch more than the core takes
RefuelMore_Over(res, c) == Count(c) <= n_batches /\ Count(res) > 0

\* The condition of Refuel_'s loop
RefuelMore(res, c) == Count(c) < n_batches /\ Count(res) > 0

\* BatchReactor::Refuel_
RECURSIVE Refuel_(_, _)
Refuel_(res, c) ==
  IF RefuelMore(res, c)
  THEN LET r == MoveBatchIn_(res, c)
       IN  IF r.err THEN r ELSE Refuel_(r.reserves, r.core)
  ELSE [err |-> FALSE, reserves |-> res, core |-> c]

\* BatchReactor::HandleTock. The scheduler then ends the time step: it drops
\* the step's exchange and advances the clock.
HandleTock ==
  /\ pc \in {"accept", "tock"}
  /\ status = "ok"
  /\ IF phase \in {"INITIAL", "WAITING"}
     THEN LET r == Refuel_(reserves, core)
          IN  /\ reserves' = r.reserves
              /\ core' = r.core
              /\ status' = IF r.err THEN "error" ELSE status
     ELSE UNCHANGED <<reserves, core, status>>
  /\ time' = time + 1
  /\ pc' = "tick"
  /\ requests' = {}
  /\ ports' = {}
  /\ trades' = <<>>
  /\ responses' = <<>>
  /\ delivered' = <<>>
  /\ UNCHANGED <<qe, params, start_time, phase, storage, spillover>>

\* ----------------------------------------------------------- requests
\* BatchReactor::GetOrder_: a portfolio of one request for size of the input
\* commodity, with a capacity constraint of size
GetOrder_(size) == [qty |-> size, cap |-> size]

\* Fault variant of the INITIAL order size: the reserve batches are never added
InitialOrderSize_NoReserve ==
  n_batches * batch_size - Quantity(core) - Quantity(reserves) - spillover

\* order_size in GetMatlRequests' two cases
InitialOrderSize ==
  n_batches * batch_size - Quantity(core) - Quantity(reserves) - spillover
  + (IF preorder_time = 0 THEN batch_size * n_reserves ELSE 0)
DefaultOrderSize ==
  n_reserves * batch_size - Quantity(reserves) - spillover

\* Fault variant of the INITIAL case's test: an order of size zero is placed
InitialOrders_NonNegative(order_size) == order_size >= 0

\* Fault variant of the default case's test: the order time is not looked at
DefaultOrders_NoTime(order_size) == order_size > 0

\* whether each case inserts an order
InitialOrders(order_size) == order_size > 0
DefaultOrders(order_size) == order_time <= time /\ order_size > 0

\* BatchReactor::GetMatlRequests: the set it returns
MatlRequests ==
  IF phase = "INITIAL"
  THEN IF InitialOrders(InitialOrderSize)
       THEN {GetOrder_(InitialOrderSize)} ELSE {}
  ELSE IF DefaultOrders(DefaultOrderSize)
       THEN {GetOrder_(DefaultOrderSize)} ELSE {}

GetMatlRequests ==
  /\ pc = "request"
  /\ status = "ok"
  /\ requests' = MatlRequests
  /\ pc' = "bid"
  /\ UNCHANGED <<qe, params, start_time, phase, buffers, time, status,
                 ports, trades, responses, delivered>>

\* --------------------------------------------------------------- bids
\* Sequences over S of lo to hi elements
SeqsOf(S, lo, hi) == UNION {[1..n -> S] : n \in lo..hi}

\* Fault variant of the bid quantity: the whole target, whatever is stored
BidQty_Target(target, stored) == target

\* the quantity offered to a request of quantity target
BidQty(target, stored) == Min(target, stored)

\* the capacity constraint of the bid portfolio
BidCapacity(stored) == stored

\* BatchReactor::GetMatlBids: the set it returns for the requests of the output
\* commodity, given by their target quantities (none: no such requests)
MatlBids(reqs) ==
  IF Len(reqs) > 0 /\ Quantity(storage) > 0
  THEN {[bids |-> [i \in 1..Len(reqs) |->
                    [req |-> reqs[i],
                     offer |-> BidQty(reqs[i], Quantity(storage))]],
         cap |-> BidCapacity(Quantity(storage))]}
  ELSE {}

GetMatlBids ==
  /\ pc = "bid"
  /\ status = "ok"
  /\ \E reqs \in SeqsOf(1..MaxAmt, 0, MaxTrades) : ports' = MatlBids(reqs)
  /\ pc' = "trade"
  /\ UNCHANGED <<qe, params, start_time, phase, buffers, time, status,
                 requests, trades, responses, delivered>>

\* ------------------------------------------------------------- trades
\* Fault variant of Fulfil: the manifest's first material is sent as it is
Fulfil_FirstOnly(st, amt) ==
  LET r == PopQty(st, amt)
  IN  [err |-> r.err, storage |-> r.rest,
       response |-> IF r.manifest = <<>> THEN 0 ELSE Head(r.manifest)]

\* Fault variant of the pop in GetMatlTrades: one unit more than the trade
Fulfil_Over(st, amt) ==
  LET r == PopQty(st, amt + 1)
  IN  [err |-> r.err, storage |-> r.rest, response |-> Sum(r.manifest)]

\* One pass of GetMatlTrades' loop: pop the trade's amount from storage and
\* blob the manifest into one material
Fulfil(st, amt) ==
  LET r == PopQty(st, amt)
  IN  [err |-> r.err, storage |-> r.rest, response |-> Sum(r.manifest)]

\* BatchReactor::GetMatlTrades' loop over the trades; the first throw ends it
RECURSIVE TradesLoop(_, _, _)
TradesLoop(ts, st, resp) ==
  IF ts = <<>>
  THEN [err |-> FALSE, storage |-> st, responses |-> resp]
  ELSE LET r == Fulfil(st, Head(ts))
       IN  IF r.err
           THEN [err |-> TRUE, storage |-> st, responses |-> resp]
           ELSE TradesLoop(Tail(ts), r.storage,
                           Append(resp, [trade |-> Head(ts), mat |-> r.response]))

\* BatchReactor::GetMatlTrades. The exchange has matched the step's requests
\* and bids into these trades.
GetMatlTrades ==
  /\ pc = "trade"
  /\ status = "ok"
  /\ \E ts \in SeqsOf(1..MaxAmt, 0, MaxTrades) :
        LET r == TradesLoop(ts, storage, <<>>)
        IN  /\ trades' = ts
            /\ storage' = r.storage
            /\ responses' = r.responses
            /\ status' = IF r.err THEN "error" ELSE status
  /\ pc' = "accept"
  /\ requests' = {}
  /\ ports' = {}
  /\ UNCHANGED <<qe, params, start_time, phase, reserves, core, spillover, time,
                 delivered>>

\* BatchReactor::AddBatches_: absorb mat into the spillover, then push batches
\* of batch_size onto the reserves while the spillover holds one
\* Fault variant of the loop's test: a spillover of exactly one batch stays
SpilloverHoldsBatch_Strict(sp) == sp > batch_size

\* the test of AddBatches_' loop
SpilloverHoldsBatch(sp) == sp >= batch_size

\* Fault variant of AddBatches_'s loop: the spillover goes to the reserves whole
AddBatchesLoop_Whole(sp, res) ==
  IF SpilloverHoldsBatch(sp)
  THEN [hung |-> FALSE, spillover |-> 0, reserves |-> Push(res, sp)]
  ELSE [hung |-> FALSE, spillover |-> sp, reserves |-> res]

RECURSIVE AddBatchesLoop(_, _)
AddBatchesLoop(sp, res) ==
  IF SpilloverHoldsBatch(sp)
  THEN AddBatchesLoop(sp - batch_size, Push(res, batch_size))
  ELSE [hung |-> FALSE, spillover |-> sp, reserves |-> res]

\* The loop's condition never turns false when batch_size is not positive
AddBatches_(sp, res, mat) ==
  IF sp + mat >= batch_size /\ batch_size <= 0
  THEN [hung |-> TRUE, spillover |-> sp + mat, reserves |-> res]
  ELSE AddBatchesLoop(sp + mat, res)

\* Fault variant of the merge: the other responses are not absorbed
MergeResponses_FirstOnly(resps) == Head(resps)

\* the quantity of the first response once it has absorbed the others
MergeResponses(resps) == Sum(resps)

\* BatchReactor::AcceptMatlTrades: the first response absorbs the others.
\* The suppliers' responses of the step have gone to their requesters.
AcceptMatlTrades ==
  /\ pc = "accept"
  /\ status = "ok"
  /\ \E resps \in SeqsOf(1..MaxAmt, 1, MaxTrades) :
        LET r == AddBatches_(spillover, reserves, MergeResponses(resps))
        IN  /\ Quantity(reserves) + spillover + Sum(resps) <= MaxHeld
            /\ delivered' = resps
            /\ spillover' = r.spillover
            /\ reserves' = r.reserves
            /\ status' = IF r.hung THEN "hung" ELSE status
  /\ pc' = "tock"
  /\ trades' = <<>>
  /\ responses' = <<>>
  /\ UNCHANGED <<qe, params, start_time, phase, core, storage, time,
                 requests, ports>>

\* ------------------------------------------------------ specification
Next ==
  \/ InitModuleMembers
  \/ Deploy
  \/ HandleTick
  \/ GetMatlRequests
  \/ GetMatlBids
  \/ GetMatlTrades
  \/ AcceptMatlTrades
  \/ HandleTock

Spec == Init /\ [][Next]_vars

\* ------------------------------------------------------------- claims
\* The steps of the handlers, told by the scheduler's position
TickStep == pc = "tick" /\ pc' = "request"
TradesStep == pc = "trade" /\ pc' = "accept"
AcceptStep == pc = "accept" /\ pc' = "tock"
TockStep == pc \in {"accept", "tock"} /\ pc' = "tick"

Deployed == pc \notin {"init", "deploy"}

Total == Quantity(reserves) + Quantity(core) + Quantity(storage) + spillover

RECURSIVE Shipped(_)
Shipped(resp) == IF resp = <<>> THEN 0 ELSE Head(resp).mat + Shipped(Tail(resp))

\* C1: the total quantity held in reserves, core, storage and spillover is
\* unchanged by every tick and every tock, rises on a completed AcceptMatlTrades
\* by exactly the sum of the delivered quantities and falls on GetMatlTrades by
\* exactly the sum of the shipped quantities; a tick only moves batches from the
\* front of the core to the back of storage and a tock only moves batches from
\* the front of the reserves to the back of the core, none duplicated or lost.
C1_Conservation ==
  [][/\ TickStep =>
          /\ Total' = Total
          /\ storage' \o core' = storage \o core
          /\ reserves' = reserves /\ spillover' = spillover
     /\ TockStep =>
          /\ Total' = Total
          /\ core' \o reserves' = core \o reserves
          /\ storage' = storage /\ spillover' = spillover
     /\ (AcceptStep /\ status' = "ok") =>
          /\ Total' = Total + Sum(delivered')
          /\ core' = core /\ storage' = storage
     /\ TradesStep =>
          /\ Total' = Total - Shipped(responses')
          /\ reserves' = reserves /\ core' = core /\ spillover' = spillover
    ]_vars

\* C1 witness: a batch has been unloaded to storage, the core refuelled, and a
\* delivery has just been absorbed into the reserves
C1_Witness ==
  /\ pc = "tock" /\ status = "ok" /\ delivered # <<>>
  /\ phase = "PROCESS" /\ time > 1
  /\ storage # <<>> /\ reserves # <<>> /\ core # <<>> /\ batch_size > 0

\* C2: in every state from deployment onward the core holds at most n_batches
\* batches.
C2_CoreCapacity == Deployed => Count(core) <= n_batches

C4_RefuelGating ==
  [][(TickStep /\ phase = "WAITING") =>
       /\ phase' \in {"WAITING", "PROCESS"}
       /\ phase' = "PROCESS" <=>
            (Count(core) = n_batches
             /\ start_time + process_time + refuel_time <= time)
       /\ core' = core /\ storage' = storage
    ]_vars

\* C4 witness: a tick in WAITING has just left a full, non-empty core waiting
\* because the refuel time has not passed
C4_Witness ==
  /\ pc = "request" /\ phase = "WAITING"
  /\ time > start_time + process_time
  /\ time < start_time + process_time + refuel_time
  /\ Count(core) = n_batches /\ n_batches > 0

\* C5: deployed with ics.n_core = n_batches, the facility is INITIAL until its
\* first tick, and that tick takes it to PROCESS.
C5_Bootstrap ==
  [][/\ (pc = "deploy" /\ pc' = "tick") => phase' = "INITIAL"
     /\ (TickStep /\ time = 0 /\ ics.n_core = n_batches) =>
          phase = "INITIAL" /\ phase' = "PROCESS" /\ start_time' = time
    ]_vars

\* C5 witness: the first tick has just started a core deployed full
C5_Witness ==
  /\ pc = "request" /\ time = 0 /\ phase = "PROCESS"
  /\ ics.n_core = n_batches /\ n_batches = 2

\* C6: right after every completed AcceptMatlTrades (AddBatches_) the spillover
\* holds at least 0 and less than batch_size.
C6_SpilloverBound ==
  (pc = "tock" /\ status = "ok" /\ delivered # <<>>) =>
    (0 <= spillover /\ spillover < batch_size)

\* C6 witness: a delivery of more than one batch has just been absorbed, a
\* batch sliced off onto the reserves and a remainder left in the spillover
C6_Witness ==
  /\ pc = "tock" /\ status = "ok" /\ delivered # <<>>
  /\ Sum(delivered) > batch_size /\ spillover > 0
  /\ reserves # <<>>

RECURSIVE Offered(_)
Offered(bids) == IF bids = <<>> THEN 0 ELSE Head(bids).offer + Offered(Tail(bids))

\* C7 as stated: the bid quantities GetMatlBids offers in one time step sum to
\* at most the quantity in storage.
C7_BidSumBound ==
  pc = "trade" => \A p \in ports : Offered(p.bids) <= Quantity(storage)

\* C7 as amended: every single bid GetMatlBids offers is at most the quantity
\* in storage when the bids are made and at most the request's quantity, and
\* the portfolio's one capacity constraint equals that stored quantity; bids
\* are made only from a non-empty storage.
C7_BidBound ==
  pc = "trade" =>
    \A p \in ports :
      /\ Quantity(storage) > 0
      /\ p.cap = Quantity(storage)
      /\ \A i \in DOMAIN p.bids :
           /\ p.bids[i].offer <= Quantity(storage)
           /\ p.bids[i].offer <= p.bids[i].req
           /\ p.bids[i].offer > 0

\* C7 witness: two requests have been bid on, and the two offers together
\* exceed what is stored
C7_Witness ==
  /\ pc = "trade"
  /\ \E p \in ports : Len(p.bids) = 2 /\ Offered(p.bids) > Quantity(storage)

\* C8: every request GetMatlRequests returns, in every phase, has a quantity
\* strictly greater than 0.
C8_RequestPositive ==
  /\ \A r \in requests : r.qty > 0
  /\ Deployed => \A r \in MatlRequests : r.qty > 0

\* C8 witness: with batches in reserve, a request for the rest of the reserve
\* target has been returned in the WAITING phase
C8_Witness ==
  /\ pc = "bid" /\ requests # {} /\ phase = "WAITING"
  /\ reserves # <<>>

\* C9 as stated: a completed AcceptMatlTrades whose deliveries sum to
\* k * batch_size pushes exactly k batches of batch_size onto the reserves and
\* leaves the spillover at 0.
C9_ExactMultipleZero ==
  [][(AcceptStep /\ status' = "ok" /\ batch_size > 0
      /\ Sum(delivered') % batch_size = 0) =>
       /\ reserves' = reserves \o Batches(Sum(delivered') \div batch_size, batch_size)
       /\ spillover' = 0
    ]_vars

\* C9 as amended: a completed AcceptMatlTrades whose deliveries sum to
\* k * batch_size pushes exactly k batches of batch_size onto the reserves and
\* leaves the spillover as it was (at 0 when it was 0 before).
C9_ExactMultiple ==
  [][(AcceptStep /\ status' = "ok" /\ batch_size > 0
      /\ Sum(delivered') % batch_size = 0) =>
       /\ reserves' = reserves \o Batches(Sum(delivered') \div batch_size, batch_size)
       /\ spillover' = spillover
    ]_vars

\* C9 witness: two deliveries that sum to one batch have just been absorbed on
\* top of a non-empty spillover
C9_Witness ==
  /\ pc = "tock" /\ status = "ok" /\ Len(delivered) = 2
  /\ batch_size > 0 /\ Sum(delivered) = batch_size
  /\ spillover > 0 /\ reserves # <<>>

\* the number of leading trades of ts that a storage holding qty can fulfil
RECURSIVE Fulfillable(_, _)
Fulfillable(ts, qty) ==
  IF ts = <<>> \/ Head(ts) > qty THEN 0
  ELSE 1 + Fulfillable(Tail(ts), qty - Head(ts))

\* C10: GetMatlTrades serves the trades in order; for each trade up to the first
\* whose amount exceeds what storage still holds it removes exactly the amount
\* and returns one shipment of that quantity; it raises an error exactly when
\* there is such a trade, having served the ones before it.
C10_Fulfil ==
  [][TradesStep =>
       LET ts == trades'
           k == Fulfillable(ts, Quantity(storage))
       IN  /\ Len(responses') = k
           /\ \A i \in 1..k : responses'[i] = [trade |-> ts[i], mat |-> ts[i]]
           /\ Quantity(storage') = Quantity(storage) - Sum(SubSeq(ts, 1, k))
           /\ status' = IF k < Len(ts) THEN "error" ELSE "ok"
    ]_vars

\* C10 witness: the first of two trades, spanning two stored batches, has been
\* shipped and the second has raised the error
C10_Witness ==
  /\ pc = "accept" /\ status = "error"
  /\ Len(trades) = 2 /\ Len(responses) = 1
  /\ responses[1].mat = 2 /\ batch_size = 1

\* C11: the reserve target and the load count are configured independently:
\* once the input file is read, n_reserves is 1 whenever norder is left out,
\* whatever nreload is, and n_load is 1 whenever nreload is left out, whatever
\* norder is.
C11_Independent ==
  pc # "init" =>
    /\ qe.norder = Absent => n_reserves = 1
    /\ qe.nreload = Absent => n_load = 1

RequestStep == pc = "request" /\ pc' = "bid"
BidStep == pc = "bid" /\ pc' = "trade"

\* C12: the phase changes only on a tick, one change per tick, and only from
\* INITIAL to PROCESS, from PROCESS to WAITING or from WAITING to PROCESS;
\* the request, bid, trade, accept and tock steps (and reading the input and
\* deploying) leave it as it is, and INITIAL is never entered again once left.
C12_PhaseChanges ==
  [][/\ phase' # phase =>
          /\ TickStep
          /\ <<phase, phase'>> \in {<<"INITIAL", "PROCESS">>,
                                    <<"PROCESS", "WAITING">>,
                                    <<"WAITING", "PROCESS">>}
     /\ (RequestStep \/ BidStep \/ TradesStep \/ AcceptStep \/ TockStep)
          => phase' = phase
     /\ phase # "INITIAL" => phase' # "INITIAL"
    ]_vars

\* C12's case: a facility deployed with empty storage is in PROCESS again
\* after an unload, so all three changes have happened
C12_Witness ==
  /\ status = "ok"
  /\ phase = "PROCESS"
  /\ ics.n_storage = 0
  /\ storage # <<>>

Max(a, b) == IF a > b THEN a ELSE b

\* The number of batches the claim says a tock moves
TockMoves ==
  IF phase \in {"INITIAL", "WAITING"}
  THEN Min(Max(n_batches - Count(core), 0), Count(reserves))
  ELSE 0

InitialNeed ==
  n_batches * batch_size - Quantity(core) - Quantity(reserves) - spillover
  + (IF preorder_time = 0 THEN n_reserves * batch_size ELSE 0)

\* C14: in INITIAL GetMatlRequests returns exactly one portfolio, of one
\* request of quantity need under a capacity constraint of need, if and only
\* if need > 0, and otherwise returns nothing; need is n_batches * batch_size
\* less the quantities of core, reserves and spillover, plus
\* n_reserves * batch_size when preorder_time is 0.
C14_InitialRequest ==
  [][RequestStep /\ phase = "INITIAL" =>
       requests' = IF InitialNeed > 0
                   THEN {[qty |-> InitialNeed, cap |-> InitialNeed]}
                   ELSE {}
    ]_vars

\* C14's case: an INITIAL facility holding spillover has placed an order that
\* includes its reserve batches
C14_Witness ==
  /\ pc = "bid"
  /\ phase = "INITIAL"
  /\ preorder_time = 0
  /\ n_reserves * batch_size > 0
  /\ spillover > 0
  /\ requests # {}

\* The order size the claim gives for the PROCESS and WAITING phases
DefaultNeed == n_reserves * batch_size - Quantity(reserves) - spillover

\* C15: in PROCESS and WAITING GetMatlRequests returns exactly one request, of
\* quantity need = n_reserves * batch_size less the quantities of reserves and
\* spillover (under a capacity constraint of need), if and only if need > 0
\* and the time has reached end_time - preorder_time; before that time, and
\* whenever need <= 0, it returns nothing.
C15_DefaultRequest ==
  [][RequestStep /\ phase \in {"PROCESS", "WAITING"} =>
       requests' = IF DefaultNeed > 0 /\ time >= end_time - preorder_time
                   THEN {[qty |-> DefaultNeed, cap |-> DefaultNeed]}
                   ELSE {}
    ]_vars

\* C15's case: a PROCESS facility with a look-ahead of one step has placed
\* its order one step before the end of the cycle
C15_Witness ==
  /\ pc = "bid"
  /\ phase = "PROCESS"
  /\ preorder_time = 1
  /\ time = end_time - 1
  /\ requests # {}

WholeBatches(buf) == \A i \in 1..Len(buf) : buf[i] = batch_size

\* C16: in every reachable state every batch held in reserves, core or
\* storage has quantity exactly batch_size; no operation, in particular no
\* outgoing trade of an arbitrary amount, leaves a partial batch in a buffer.
C16_WholeBatches ==
  /\ WholeBatches(reserves)
  /\ WholeBatches(core)
  /\ WholeBatches(storage)

\* C16, amended: every batch in reserves and core has quantity exactly
\* batch_size, and so has every batch in storage but the front one, which may
\* be the remainder (more than nothing, at most batch_size) that an outgoing
\* trade has left of a batch.
C16_OnlyStorageFrontSplit ==
  /\ WholeBatches(reserves)
  /\ WholeBatches(core)
  /\ storage # <<>> =>
       /\ WholeBatches(Tail(storage))
       /\ Head(storage) <= batch_size
       /\ Head(storage) > 0 \/ batch_size = 0

\* C16's case: a trade has taken part of the front batch of a storage of at
\* least two batches
C16_Witness ==
  /\ pc = "accept"
  /\ status = "ok"
  /\ trades # <<>>
  /\ Len(storage) >= 2
  /\ Head(storage) < batch_size

\* C17: when the trades matched in a time step sum to at most the quantity
\* that storage held when GetMatlBids made the step's bids (the capacity
\* constraint of its portfolio; storage is not touched in between),
\* GetMatlTrades raises no error and leaves storage holding that quantity
\* less the traded sum, which is not negative.
C17_RespectedCapacity ==
  [][/\ TradesStep => \A p \in ports : p.cap = Quantity(storage)
     /\ TradesStep /\ Sum(trades') <= Quantity(storage) =>
          /\ status' = "ok"
          /\ Len(responses') = Len(trades')
          /\ Quantity(storage') = Quantity(storage) - Sum(trades')
          /\ Quantity(storage') >= 0
    ]_vars

\* C17's case: two trades that together take all that storage held have
\* both been served
C17_Witness ==
  /\ pc = "accept"
  /\ status = "ok"
  /\ Len(trades) = 2
  /\ Len(responses) = 2
  /\ storage = <<>>

\* C18: in every reachable state whose phase is PROCESS the core is full,
\* Count(core) = n_batches, whatever nbatches and nreload the input gives.
C18_ProcessCoreFull == phase = "PROCESS" => Count(core) = n_batches

\* C19: the scheduler ticks once at every consecutive time and a PROCESS
\* facility becomes WAITING only on the tick that finds time = end_time, so a
\* facility that has entered PROCESS reaches WAITING only if its end time is
\* still ahead: whenever a PROCESS facility awaits a tick, time <= end_time,
\* for every processtime (0 too), nbatches and nreload.
C19_EndTimeAhead ==
  pc = "tick" /\ status = "ok" /\ phase = "PROCESS" => time <= end_time

\* C20: every call of AddBatches_ returns, whatever batchsize (0 too) and
\* whatever quantity is delivered: no state has a call that never ends.
C20_AbsorbTerminates == status # "hung"

\* C21: a call that raises an error leaves the four buffers and the phase as
\* they were before it: a GetMatlTrades that fails on some trade has taken
\* nothing out of storage, and a HandleTick whose unload fails has moved no
\* batch from the core to storage.
C21_ErrorLeavesState ==
  [][status = "ok" /\ status' = "error" =>
       /\ reserves' = reserves
       /\ core' = core
       /\ storage' = storage
       /\ spillover' = spillover
       /\ phase' = phase
    ]_vars

====
